---- MODULE Spec2Model ----
(***************************************************************************)
(* A model of src/link_checker.py: the link checker of the Creative        *)
(* Commons legalcode files.                                                 *)
(*                                                                         *)
(* Strings are sequences of tokens.  A token is either one of the          *)
(* delimiter characters : / ? # . _ or a maximal run of other characters    *)
(* (a word), so that a token sequence stands for exactly one string and    *)
(* str.split, urlsplit, urlunsplit and urljoin can be computed on it the    *)
(* way Python computes them on characters.  Str gives the string back.     *)
(*                                                                         *)
(* The listing (all_links) and the anchors of a document                   *)
(* (links_in_license) are read one element at a time: the model keeps      *)
(* their lengths and the element the for loop currently holds.             *)
(***************************************************************************)
EXTENDS Integers, Sequences, FiniteSets, TLC

\* Bounds of the model.
MaxDocs == 2        \* files in the listing
MaxLinks == 2       \* <a> tags in all the files of the listing together

(***************************************************************************)
(* Strings                                                                 *)
(***************************************************************************)

\* str.isalpha() of the first character, and the characters urlsplit
\* accepts in a scheme (letters, digits, "+", "-", "."), for the words used.
AlphaWords == {"https", "http", "mailto", "ftp", "HTTP", "deed", "by",
               "creativecommons", "licenses", "example", "org", "u", "a",
               "q", "top"}
SchemeWords == AlphaWords \cup {"4", "0", "1"}

\* str.lower() of a word.
Lower(w) == IF w = "HTTP" THEN "http" ELSE w

\* The words w with w.startswith("zero").
ZeroWords == {"zero", "zero-assert"}

RECURSIVE Str(_)
Str(s) == IF s = <<>> THEN "" ELSE s[1] \o Str(Tail(s))

\* The least index of token t in s at or after index from, or 0 (str.find).
RECURSIVE FindFrom(_, _, _)
FindFrom(s, ts, from) ==
    IF from > Len(s) THEN 0
    ELSE IF s[from] \in ts THEN from
    ELSE FindFrom(s, ts, from + 1)

Find(s, t) == FindFrom(s, {t}, 1)

\* str.split(t): the pieces of s between the occurrences of t.
RECURSIVE Split(_, _)
Split(s, t) ==
    LET i == Find(s, t)
    IN  IF i = 0 THEN <<s>>
        ELSE <<SubSeq(s, 1, i - 1)>> \o Split(SubSeq(s, i + 1, Len(s)), t)

\* t.join(pieces)
RECURSIVE Join(_, _)
Join(pieces, t) ==
    IF pieces = <<>> THEN <<>>
    ELSE IF Len(pieces) = 1 THEN pieces[1]
    ELSE pieces[1] \o <<t>> \o Join(Tail(pieces), t)

Last(s) == s[Len(s)]
Front(s) == SubSeq(s, 1, Len(s) - 1)

(***************************************************************************)
(* urllib.parse                                                            *)
(***************************************************************************)
uses_relative == {<<"ftp">>, <<"http">>, <<"https">>}
uses_netloc == {<<"ftp">>, <<"http">>, <<"https">>}

\* str.partition(t) of s when t is at index i (0: t is not in s).
PartitionAt(s, i) ==
    IF i = 0 THEN <<s, <<>>>>
    ELSE <<SubSeq(s, 1, i - 1), SubSeq(s, i + 1, Len(s))>>

Partition(s, t) == PartitionAt(s, Find(s, t))

\* urlsplit, the scheme: the text before the first ":" (at index i) when it
\* starts with a letter and has scheme characters only; it is lowered.
split_scheme(url, i) ==
    IF /\ i > 1
       /\ url[1] \in AlphaWords
       /\ \A j \in 1..(i - 1) : url[j] \in SchemeWords \cup {"."}
    THEN <<[j \in 1..(i - 1) |-> Lower(url[j])], SubSeq(url, i + 1, Len(url))>>
    ELSE <<<<>>, url>>

\* _splitnetloc(url, 2), where d is the index of the first of "/?#" after
\* the two slashes (0: there is none).
splitnetloc(url, d) ==
    IF d = 0 THEN <<SubSeq(url, 3, Len(url)), <<>>>>
    ELSE <<SubSeq(url, 3, d - 1), SubSeq(url, d, Len(url))>>

\* urlsplit, the netloc: present when the rest starts with "//".
split_netloc(url) ==
    IF Len(url) >= 2 /\ url[1] = "/" /\ url[2] = "/"
    THEN splitnetloc(url, FindFrom(url, {"/", "?", "#"}, 3))
    ELSE <<<<>>, url>>

SplitResult(scheme, netloc, pq, fragment) ==
    [scheme |-> scheme, netloc |-> netloc, path |-> pq[1], query |-> pq[2],
     fragment |-> fragment]

split_query(scheme, netloc, pf) ==
    SplitResult(scheme, netloc, Partition(pf[1], "?"), pf[2])

split_fragment(scheme, nl) == split_query(scheme, nl[1], Partition(nl[2], "#"))

split_rest(s) == split_fragment(s[1], split_netloc(s[2]))

\* urlsplit(url): scheme, netloc, path, query and fragment of url.
urlsplit(url) == split_rest(split_scheme(url, Find(url, ":")))

\* SplitResult.geturl(), that is urlunsplit.
geturl(r) ==
    LET slashes == Len(r.path) >= 2 /\ r.path[1] = "/" /\ r.path[2] = "/"
        withNetloc == \/ r.netloc # <<>>
                      \/ r.scheme # <<>> /\ r.scheme \in uses_netloc /\ ~slashes
        p1 == IF r.path # <<>> /\ r.path[1] # "/" THEN <<"/">> \o r.path
              ELSE r.path
        u1 == IF withNetloc THEN <<"/", "/">> \o r.netloc \o p1 ELSE r.path
        u2 == IF r.scheme # <<>> THEN r.scheme \o <<":">> \o u1 ELSE u1
        u3 == IF r.query # <<>> THEN u2 \o <<"?">> \o r.query ELSE u2
    IN  IF r.fragment # <<>> THEN u3 \o <<"#">> \o r.fragment ELSE u3

\* The dot segments of urljoin: ".." drops the segment before it, "." is
\* dropped, every other segment is kept.
RECURSIVE resolve_segments(_, _)
resolve_segments(segments, resolved) ==
    IF segments = <<>> THEN resolved
    ELSE LET seg == Head(segments)
         IN  IF seg = <<".", ".">>
             THEN resolve_segments(Tail(segments),
                      IF resolved = <<>> THEN <<>> ELSE Front(resolved))
             ELSE IF seg = <<".">>
             THEN resolve_segments(Tail(segments), resolved)
             ELSE resolve_segments(Tail(segments), Append(resolved, seg))

\* filter(None, segments[1:-1]): the empty inner segments are dropped.
RECURSIVE drop_empty(_)
drop_empty(segs) ==
    IF segs = <<>> THEN <<>>
    ELSE IF Head(segs) = <<>> THEN drop_empty(Tail(segs))
    ELSE <<Head(segs)>> \o drop_empty(Tail(segs))

\* urljoin: the segments of the base path without the last one.
base_parts(bp) == IF Last(bp) # <<>> THEN Front(bp) ELSE bp

\* urljoin: segments[1:-1] = filter(None, segments[1:-1]).
filter_inner(segs) ==
    IF Len(segs) < 3 THEN segs
    ELSE <<segs[1]>> \o drop_empty(SubSeq(segs, 2, Len(segs) - 1))
         \o <<Last(segs)>>

\* urljoin: the segments of the joined path before the dots are resolved.
join_segments(bpath, path) ==
    IF path[1] = "/" THEN Split(path, "/")
    ELSE filter_inner(base_parts(Split(bpath, "/")) \o Split(path, "/"))

path_or_root(p) == IF p = <<>> THEN <<"/">> ELSE p

\* urljoin: the resolved path of the segments.
resolved_path(segments) ==
    path_or_root(Join(IF Last(segments) \in {<<".">>, <<".", ".">>}
                      THEN Append(resolve_segments(segments, <<>>), <<>>)
                      ELSE resolve_segments(segments, <<>>), "/"))

\* urljoin for the parsed base b and the parsed url u, which has the scheme
\* of the base when it had none.
join_parsed(b, u, url) ==
    IF u.scheme # b.scheme \/ u.scheme \notin uses_relative THEN url
    ELSE IF u.scheme \in uses_netloc /\ u.netloc # <<>> THEN geturl(u)
    ELSE IF u.path = <<>>
    THEN geturl([u EXCEPT !.netloc = b.netloc, !.path = b.path,
                   !.query = IF u.query = <<>> THEN b.query ELSE u.query])
    ELSE geturl([u EXCEPT !.netloc = b.netloc,
                   !.path = resolved_path(join_segments(b.path, u.path))])

default_scheme(u, scheme) ==
    IF u.scheme = <<>> THEN [u EXCEPT !.scheme = scheme] ELSE u

join_split(b, u, url) == join_parsed(b, default_scheme(u, b.scheme), url)

\* urljoin(base, url).
urljoin(base, url) ==
    IF base = <<>> THEN url
    ELSE IF url = <<>> THEN base
    ELSE join_split(urlsplit(base), urlsplit(url), url)

(***************************************************************************)
(* link_checker.py: the functions                                          *)
(***************************************************************************)
\* A check result: a status code (an int) or a message (a str).
Code(n) == [code |-> n]
Text(s) == [text |-> s]

\* bool(status), the test of "if status:" in check_existing.
Truthy(status) ==
    IF "code" \in DOMAIN status THEN status.code # 0 ELSE status.text # ""

\* create_absolute_link without the test of the netloc.
create_absolute_link_any_host(link_analysis, href, base) ==
    IF link_analysis.scheme = <<>> /\ link_analysis.path # <<>>
    THEN urljoin(base, href)
    ELSE href

\* create_absolute_link(link_analysis, href), with the global base_url it
\* reads as its third parameter.
create_absolute_link(link_analysis, href, base) ==
    IF /\ link_analysis.scheme = <<>>
       /\ link_analysis.netloc = <<>>
       /\ link_analysis.path # <<>>
    THEN urljoin(base, href)
    ELSE href

\* Lines 139-144 of create_base_link, for extra as line 134 left it.
base_link_suffix(parts, extra) ==
    (IF Len(parts) = 4 THEN extra \o <<"/">> \o parts[3] ELSE extra)
    \o <<"/", "legalcode">>
    \o (IF Len(parts) >= 3 THEN <<".">> \o Last(parts) ELSE <<>>)

\* Lines 127-132 of create_base_link.
base_link_prefix(parts) ==
    IF parts[1] = <<"samplingplus">>
    THEN <<"/", "licenses", "/", "sampling+">>
    ELSE IF parts[1] # <<>> /\ parts[1][1] \in ZeroWords
    THEN <<"/", "publicdomain", "/">> \o parts[1]
    ELSE <<"/", "licenses", "/">> \o parts[1]

\* base_link_extra without the return of line 137.
base_link_extra_no_return(parts, extra) == base_link_suffix(parts, extra)

\* Lines 134-144 of create_base_link.
base_link_extra(parts, extra) ==
    IF parts[1] = <<"samplingplus">> /\ Len(parts) = 3
    THEN extra \o <<"/">> \o parts[3] \o <<"/", "legalcode">>
    ELSE base_link_suffix(parts, extra)

base_link_parts(parts) ==
    <<"https", ":", "/", "/", "creativecommons", ".", "org">>
    \o base_link_extra(parts, base_link_prefix(parts) \o <<"/">> \o parts[2])

\* create_base_link(filename), for a filename with at least two parts.
create_base_link(filename) == base_link_parts(Split(filename, "_"))

\* cache_hit with the test "if status == 200:".
cache_hit_only_200(cache, href) ==
    href \in DOMAIN cache /\ cache[href] = Code(200)

\* The test of line 76, "if status:", on scraped_links.get(href).
cache_hit(cache, href) == href \in DOMAIN cache /\ Truthy(cache[href])

\* scrape_requests with "mailto" among the schemes of line 103.
scrape_requests_mailto(href) ==
    urlsplit(href).scheme \in {<<>>, <<"https">>, <<"http">>, <<"mailto">>}

\* scrape(href) issues a GET (lines 103-108) for these hrefs ...
scrape_requests(href) ==
    urlsplit(href).scheme \in {<<>>, <<"https">>, <<"http">>}

\* ... of this URL (lines 104-106).
scrape_url(href) ==
    LET analyse == urlsplit(href)
    IN  geturl(IF analyse.scheme = <<>>
               THEN [analyse EXCEPT !.scheme = <<"https">>]
               ELSE analyse)

\* scrape(href), where res is what get_status returned for scrape_url(href).
scrape(href, res) ==
    IF scrape_requests(href) THEN res
    ELSE IF urlsplit(href).scheme = <<"mailto">> THEN Text("ignore")
    ELSE Text("Invalid protocol detected")

\* What get_status returns: "Timeout Error" or res.status_code.
StatusReturns == {Code(200), Code(404), Text("Timeout Error")}

\* is_error with the test "status != 200".
is_error_not_200(status) == status # Code(200)

\* Line 194: status not in [200, "ignore"].
is_error(status) == status \notin {Code(200), Text("ignore")}

\* starts_internal with the test href[-1] == "#".
starts_internal_last(h) == Last(h) = "#"

\* Line 190: href[0] == "#", for an href that is not empty.
starts_internal(h) == h[1] = "#"

\* Line 172 and line 175: the extension of licens.string, and the string
\* without its last five characters (".html").
is_html(name) == Last(Split(name, ".")) = <<"html">>
strip_html(name) == IF Len(name) >= 2 THEN SubSeq(name, 1, Len(name) - 2)
                    ELSE <<>>

(***************************************************************************)
(* The inputs: the names of the listing and the anchors of the files       *)
(***************************************************************************)
V40 == <<"4", ".", "0">>
V10 == <<"1", ".", "0">>
Html == <<".", "html">>

\* by_4.0.html, by-sa_4.0_fr.html and a file that is no html file.
FileSamples ==
    { <<"by", "_">> \o V40 \o Html,
      <<"by-sa", "_">> \o V40 \o <<"_", "fr">> \o Html,
      <<"by", "_">> \o V40 \o <<".", "txt">> }

Host == <<"example", ".", "org">>
Deed == <<"/", "/", "creativecommons", ".", "org", "/", "licenses", "/", "by",
          "/">> \o V40 \o <<"/", "deed">>

\* <a> without href, and <a href=...> for the hrefs of HrefSamples.
NoHref == [has_href |-> FALSE, href |-> <<>>]
Anchor(h) == [has_href |-> TRUE, href |-> h]

HrefSamples ==
    { <<>>,                                           \* href=""
      <<"#", "top">>,
      <<"?", "q">>,
      <<"deed">>,
      Deed,                                           \* //creativecommons.org/...
      <<"HTTP", ":", "/", "/">> \o Host \o <<"/", "a">>,
      <<"mailto", ":", "u">>,
      <<"ftp", ":", "/", "/">> \o Host \o <<"/", "a">> }

(***************************************************************************)
(* The state                                                               *)
(***************************************************************************)
None == [none |-> TRUE]

VARIABLES
    pc,             \* "run": in the loops, "exited": sys.exit, "crashed"
    nfiles,         \* len(all_links)
    fi,             \* the files of all_links the outer loop is done with
    licens,         \* licens.string
    base_url,
    nlinks,         \* len(links_in_license)
    nread,          \* the anchors of all the files fetched so far
    li,             \* the anchors of links_in_license the inner loop is done with
    link,
    caught_errors,
    err_code,
    scraped_links,
    href,           \* href in check_existing after line 74: the cache key
    status,         \* status in the main loop, line 193
    scrapes,        \* the calls of scrape, counted by argument
    gets,           \* the GET requests of get_status, counted by URL
    printed,        \* the lines printed on line 201 for the current file
    headers,        \* the headers printed on lines 196-199 for the current file
    nchecked,       \* the anchors of the current file that were checked
    nfailing,       \* those among them with a failing check result
    any_error,      \* some status of the run was neither 200 nor "ignore"
    exc,            \* the exception that ended the run, or "none"
    exit_status     \* the exit status of the process, or -1 while it runs

vars == <<pc, nfiles, fi, licens, base_url, nlinks, nread, li, link, caught_errors,
          err_code, scraped_links, href, status, scrapes, gets, printed,
          headers, nchecked, nfailing, any_error, exc, exit_status>>

Empty == [k \in {} |-> 0]

\* cnt with one more occurrence of k counted.
Count(cnt, k) ==
    [x \in DOMAIN cnt \cup {k} |->
        IF x = k THEN (IF k \in DOMAIN cnt THEN cnt[k] ELSE 0) + 1 ELSE cnt[x]]

\* The state when get_all_license has returned (line 162).
Init ==
    /\ pc = "run"
    /\ nfiles \in 0..MaxDocs
    /\ fi = 0
    /\ licens = <<>>
    /\ base_url = <<>>
    /\ nlinks = 0
    /\ nread = 0
    /\ li = 0
    /\ link = NoHref
    /\ caught_errors = 0
    /\ err_code = 0
    /\ scraped_links = Empty
    /\ href = <<>>
    /\ status = None
    /\ scrapes = Empty
    /\ gets = Empty
    /\ printed = 0
    /\ headers = 0
    /\ nchecked = 0
    /\ nfailing = 0
    /\ any_error = FALSE
    /\ exc = "none"
    /\ exit_status = -1

(***************************************************************************)
(* The main loop, lines 166-207                                            *)
(***************************************************************************)
\* The outer loop is at line 166: the inner loop is not running.
AtFiles == pc = "run" /\ li = nlinks

\* The inner loop is at line 183 and has an anchor to take.
AtLinks == pc = "run" /\ li < nlinks

\* Line 167 for the file named name, with the output of the file so far.
EnterFile(name) ==
    /\ licens' = name
    /\ caught_errors' = 0
    /\ printed' = 0
    /\ headers' = 0
    /\ nchecked' = 0
    /\ nfailing' = 0

\* Lines 166-174: a file that is no html file is skipped.
SkipFile(name) ==
    /\ AtFiles
    /\ fi < nfiles
    /\ ~is_html(name)
    /\ EnterFile(name)
    /\ fi' = fi + 1
    /\ UNCHANGED <<pc, nfiles, base_url, nlinks, nread, li, link, err_code,
                   scraped_links, href, status, scrapes, gets, any_error,
                   exc, exit_status>>

\* Lines 166-182: the file is fetched and has n anchors.
FetchFile(name, n) ==
    /\ AtFiles
    /\ fi < nfiles
    /\ is_html(name)
    /\ EnterFile(name)
    /\ fi' = fi + 1
    /\ base_url' = create_base_link(strip_html(name))
    /\ nread + n <= MaxLinks
    /\ nlinks' = n
    /\ nread' = nread + n
    /\ li' = 0
    /\ UNCHANGED <<pc, nfiles, link, err_code, scraped_links, href, status,
                   scrapes, gets, any_error, exc, exit_status>>

\* Line 178: requests.get raises, nothing catches it.
FetchFileRaises(name) ==
    /\ AtFiles
    /\ fi < nfiles
    /\ is_html(name)
    /\ EnterFile(name)
    /\ base_url' = create_base_link(strip_html(name))
    /\ pc' = "crashed"
    /\ exc' = "RequestException"
    /\ exit_status' = 1
    /\ fi' = fi + 1
    /\ UNCHANGED <<nfiles, nlinks, nread, li, link, err_code, scraped_links,
                   href, status, scrapes, gets, any_error>>

\* Lines 183-189: an anchor without href.
LinkNoHref ==
    /\ AtLinks
    /\ link' = NoHref
    /\ li' = li + 1
    /\ UNCHANGED <<pc, nfiles, fi, licens, base_url, nlinks, nread, caught_errors,
                   err_code, scraped_links, href, status, scrapes, gets,
                   printed, headers, nchecked, nfailing, any_error, exc, exit_status>>

\* Line 190 for href = "": href[0] raises IndexError, nothing catches it.
LinkEmpty ==
    /\ AtLinks
    /\ <<>> \in HrefSamples
    /\ link' = Anchor(<<>>)
    /\ pc' = "crashed"
    /\ exc' = "IndexError"
    /\ exit_status' = 1
    /\ UNCHANGED <<nfiles, fi, licens, base_url, nlinks, nread, li, caught_errors,
                   err_code, scraped_links, href, status, scrapes, gets,
                   printed, headers, nchecked, nfailing, any_error>>

\* Lines 190-192: an href that starts with "#".
LinkInternal(h) ==
    /\ AtLinks
    /\ h # <<>>
    /\ starts_internal(h)
    /\ link' = Anchor(h)
    /\ li' = li + 1
    /\ UNCHANGED <<pc, nfiles, fi, licens, base_url, nlinks, nread, caught_errors,
                   err_code, scraped_links, href, status, scrapes, gets,
                   printed, headers, nchecked, nfailing, any_error, exc, exit_status>>

\* A failing check result: one that is neither 200 nor "ignore".
Failing(st) == st # Code(200) /\ st # Text("ignore")

\* Report with err_code assigned from every status, failing or not.
Report_reset(st) ==
    /\ status' = st
    /\ nchecked' = nchecked + 1
    /\ nfailing' = IF Failing(st) THEN nfailing + 1 ELSE nfailing
    /\ caught_errors' = IF is_error(st) THEN caught_errors + 1
                        ELSE caught_errors
    /\ headers' = IF is_error(st) /\ caught_errors + 1 = 1 THEN headers + 1
                  ELSE headers
    /\ printed' = IF is_error(st) THEN printed + 1 ELSE printed
    /\ err_code' = IF is_error(st) THEN 1 ELSE 0
    /\ any_error' = (any_error \/ Failing(st))

\* Lines 194-202 for the status check_existing returned.
Report(st) ==
    /\ status' = st
    /\ nchecked' = nchecked + 1
    /\ nfailing' = IF Failing(st) THEN nfailing + 1 ELSE nfailing
    /\ IF is_error(st)
       THEN /\ caught_errors' = caught_errors + 1
            /\ headers' = IF caught_errors + 1 = 1 THEN headers + 1 ELSE headers
            /\ err_code' = 1
            /\ printed' = printed + 1
       ELSE UNCHANGED <<caught_errors, headers, err_code, printed>>
    /\ any_error' = (any_error \/ Failing(st))

\* Lines 72-74: the link reaches check_existing, which makes its key.
Checked(h) ==
    /\ AtLinks
    /\ h # <<>>
    /\ ~starts_internal(h)
    /\ link' = Anchor(h)
    /\ href' = create_absolute_link(urlsplit(h), h, base_url)

\* Lines 75-77: the key is in scraped_links.
LinkCached(h) ==
    /\ Checked(h)
    /\ cache_hit(scraped_links, href')
    /\ Report(scraped_links[href'])
    /\ li' = li + 1
    /\ UNCHANGED <<pc, nfiles, fi, licens, base_url, nlinks, nread, scraped_links,
                   scrapes, gets, exc, exit_status>>

\* Lines 78-81 and 103-108: scrape asks get_status, which returns res.
LinkRequested(h, res) ==
    /\ Checked(h)
    /\ ~cache_hit(scraped_links, href')
    /\ scrape_requests(href')
    /\ scrapes' = Count(scrapes, href')
    /\ gets' = Count(gets, scrape_url(href'))
    /\ scraped_links' = [k \in DOMAIN scraped_links \cup {href'} |->
                           IF k = href' THEN scrape(href', res)
                           ELSE scraped_links[k]]
    /\ Report(scrape(href', res))
    /\ li' = li + 1
    /\ UNCHANGED <<pc, nfiles, fi, licens, base_url, nlinks, nread, exc, exit_status>>

\* Lines 78-79 and 86: requests.get raises an exception that is no Timeout.
LinkRequestRaises(h) ==
    /\ Checked(h)
    /\ ~cache_hit(scraped_links, href')
    /\ scrape_requests(href')
    /\ scrapes' = Count(scrapes, href')
    /\ gets' = Count(gets, scrape_url(href'))
    /\ pc' = "crashed"
    /\ exc' = "RequestException"
    /\ exit_status' = 1
    /\ UNCHANGED <<nfiles, fi, licens, base_url, nlinks, nread, li, caught_errors,
                   err_code, scraped_links, status, printed, headers,
                   nchecked, nfailing, any_error>>

\* Lines 78-81 and 109-112: scrape answers without a request.
LinkNotRequested(h) ==
    /\ Checked(h)
    /\ ~cache_hit(scraped_links, href')
    /\ ~scrape_requests(href')
    /\ scrapes' = Count(scrapes, href')
    /\ scraped_links' = [k \in DOMAIN scraped_links \cup {href'} |->
                           IF k = href' THEN scrape(href', None)
                           ELSE scraped_links[k]]
    /\ Report(scrape(href', None))
    /\ li' = li + 1
    /\ UNCHANGED <<pc, nfiles, fi, licens, base_url, nlinks, nread, gets, exc,
                   exit_status>>

\* Lines 166 and 204-207: the listing is exhausted, sys.exit(err_code).
Exit ==
    /\ AtFiles
    /\ fi = nfiles
    /\ pc' = "exited"
    /\ exit_status' = err_code
    /\ UNCHANGED <<nfiles, fi, licens, base_url, nlinks, nread, li, link,
                   caught_errors, err_code, scraped_links, href, status,
                   scrapes, gets, printed, headers, nchecked, nfailing, any_error, exc>>

Next ==
    \/ \E name \in FileSamples : SkipFile(name)
    \/ \E name \in FileSamples, n \in 0..MaxLinks : FetchFile(name, n)
    \/ \E name \in FileSamples : FetchFileRaises(name)
    \/ LinkNoHref
    \/ LinkEmpty
    \/ \E h \in HrefSamples : LinkInternal(h)
    \/ \E h \in HrefSamples : LinkCached(h)
    \/ \E h \in HrefSamples, res \in StatusReturns : LinkRequested(h, res)
    \/ \E h \in HrefSamples : LinkRequestRaises(h)
    \/ \E h \in HrefSamples : LinkNotRequested(h)
    \/ Exit

Spec == Init /\ [][Next]_vars

(***************************************************************************)
(* create_base_link on the names of the naming scheme: two to five parts,  *)
(* of files that are html files or not.  The files have no anchors.        *)
(***************************************************************************)
FirstParts == {"by", "by-sa", "samplingplus", "samplingplus-nc", "zero",
               "zero-assert", "nonzero"}
OtherParts == {<<"fr">>, <<"us">>}
Versions == {V40, V10}

Names2 == {<<p>> \o <<"_">> \o v : p \in FirstParts, v \in Versions}
Names3 == {n \o <<"_">> \o q : n \in Names2, q \in OtherParts}
Names4 == {n \o <<"_">> \o q : n \in Names3, q \in OtherParts}
Names5 == {n \o <<"_">> \o q : n \in Names4, q \in OtherParts}

BaseFiles ==
    {n \o Html : n \in Names2 \cup Names3 \cup Names4 \cup Names5}
    \cup {n \o <<".", "txt">> : n \in Names2}

NextBase ==
    \/ \E name \in BaseFiles : SkipFile(name)
    \/ \E name \in BaseFiles : FetchFile(name, 0)
    \/ \E name \in BaseFiles : FetchFileRaises(name)
    \/ Exit

SpecBase == Init /\ [][NextBase]_vars

(***************************************************************************)
(* The properties                                                          *)
(***************************************************************************)
\* A step of the inner loop: it takes the anchor link' from the file.
LinkStep == AtLinks /\ vars' # vars

\* The anchor has an href that starts with "#".
Internal(a) == a.has_href /\ a.href # <<>> /\ a.href[1] = "#"

\* The anchor has an href that does not start with "#".
Checkable(a) == a.has_href /\ (a.href = <<>> \/ a.href[1] # "#")

\* The resolved form of a cache key: its scheme is https when it has none.
ResolvedForm(k) ==
    IF urlsplit(k).scheme = <<>>
    THEN geturl([urlsplit(k) EXCEPT !.scheme = <<"https">>])
    ELSE k

\* The URLs a step sends a GET request to.
Requested ==
    {u \in DOMAIN gets' : u \notin DOMAIN gets \/ gets'[u] > gets[u]}

NetworkSchemes == {<<>>, <<"http">>, <<"https">>}
Mailto == <<"mailto", ":", "u">>

\* C1: links with the same resolved form (the key, with the scheme https
\* when it has none) are scraped at most once in a run, and no URL is sent
\* more than one GET request.
C1_OncePerResolvedForm ==
    /\ \A k1, k2 \in DOMAIN scrapes :
          ResolvedForm(k1) = ResolvedForm(k2) => k1 = k2 /\ scrapes[k1] = 1
    /\ \A u \in DOMAIN gets : gets[u] = 1

\* C2: err_code starts at 0 and is never set back to 0, and the exit status
\* of a run that reaches sys.exit is 1 if some check result of the run was
\* neither 200 nor "ignore", and 0 if none was.
C2_ExitStatus ==
    /\ err_code = 0
    /\ [][err_code = 1 => err_code' = 1]_vars
    /\ [](pc = "exited" => exit_status = IF any_error THEN 1 ELSE 0)

C2_Witness ==
    /\ pc = "exited"
    /\ exit_status = 1
    /\ fi = 2
    /\ nchecked = 1
    /\ nfailing = 0

\* C3: an anchor whose href starts with "#" is skipped: no scrape, no GET
\* request, no new cache entry, the error counter and err_code keep their
\* values, and the loop goes on to the next anchor.
C3_InternalSkipped ==
    [][(LinkStep /\ Internal(link')) =>
          /\ li' = li + 1
          /\ pc' = "run"
          /\ UNCHANGED <<scraped_links, scrapes, gets, caught_errors,
                         err_code, printed, headers, nchecked>>]_vars

C3_Witness ==
    /\ pc = "run"
    /\ link = Anchor(<<"#", "top">>)
    /\ li = 2
    /\ nchecked = 1
    /\ Cardinality(DOMAIN scraped_links) = 1

\* C4: scrape sends a GET request exactly when the scheme of its argument
\* is empty, http or https, to a URL with that scheme, https for the empty
\* one; it answers "ignore" for mailto and "Invalid protocol detected" for
\* every other scheme.
C4_SchemeDecides ==
    [][scrapes' # scrapes =>
          LET sch == urlsplit(href').scheme
          IN  /\ (gets' # gets) <=> (sch \in NetworkSchemes)
              /\ sch \in NetworkSchemes =>
                    /\ Cardinality(Requested) = 1
                    /\ \A u \in Requested :
                          urlsplit(u).scheme =
                             IF sch = <<>> THEN <<"https">> ELSE sch
              /\ sch = <<"mailto">> =>
                    /\ status' = Text("ignore")
                    /\ scraped_links'[href'] = Text("ignore")
              /\ sch \notin NetworkSchemes \cup {<<"mailto">>} =>
                    /\ status' = Text("Invalid protocol detected")
                    /\ scraped_links'[href'] = Text("Invalid protocol detected")
    ]_vars

C4_Witness ==
    /\ Deed \in DOMAIN scraped_links
    /\ Mailto \in DOMAIN scraped_links
    /\ scraped_links[Mailto] = Text("ignore")
    /\ DOMAIN gets = {<<"https", ":">> \o Deed}

\* The base URL of C5 for the parts of a file name.
C5_Expected(parts) ==
    LET prefix == IF parts[1] = <<"samplingplus">>
                  THEN "/licenses/sampling+"
                  ELSE IF parts[1][1] \in ZeroWords
                  THEN "/publicdomain/" \o Str(parts[1])
                  ELSE "/licenses/" \o Str(parts[1])
        suffix == IF parts[1] = <<"samplingplus">> /\ Len(parts) = 3
                  THEN "/" \o Str(parts[3]) \o "/legalcode"
                  ELSE (IF Len(parts) = 4 THEN "/" \o Str(parts[3]) ELSE "")
                       \o "/legalcode"
                       \o (IF Len(parts) >= 3 THEN "." \o Str(Last(parts))
                           ELSE "")
    IN  "https://creativecommons.org" \o prefix \o "/" \o Str(parts[2])
        \o suffix

\* C5: the base URL of an html file is https://creativecommons.org, the
\* prefix of its first part, "/", its second part and the suffix of its
\* number of parts; by_4.0, by-sa_4.0_fr, samplingplus_1.0_us and zero_1.0
\* get the URLs the specification lists.
C5_BaseLink ==
    (fi > 0 /\ is_html(licens)) =>
       /\ Str(base_url) = C5_Expected(Split(strip_html(licens), "_"))
       /\ Str(licens) = "by_4.0.html" =>
             Str(base_url) =
                "https://creativecommons.org/licenses/by/4.0/legalcode"
       /\ Str(licens) = "by-sa_4.0_fr.html" =>
             Str(base_url) =
                "https://creativecommons.org/licenses/by-sa/4.0/legalcode.fr"
       /\ Str(licens) = "samplingplus_1.0_us.html" =>
             Str(base_url) =
                "https://creativecommons.org/licenses/sampling+/1.0/us/legalcode"
       /\ Str(licens) = "zero_1.0.html" =>
             Str(base_url) =
                "https://creativecommons.org/publicdomain/zero/1.0/legalcode"

C5_Witness ==
    /\ fi > 0
    /\ Str(licens) = "samplingplus_1.0_us.html"
    /\ Str(base_url) =
          "https://creativecommons.org/licenses/sampling+/1.0/us/legalcode"

\* C6: the key of a checked href without scheme and host and with a path
\* is the join of the base URL of the current file with the href, every
\* other href is its own key; the key is what the cache stores and what
\* scrape is called with.
C6_JoinedWithCurrentBase ==
    [][(LinkStep /\ Checkable(link') /\ link'.href # <<>>) =>
          LET h == link'.href
              a == urlsplit(link'.href)
          IN  /\ href' = IF a.scheme = <<>> /\ a.netloc = <<>> /\ a.path # <<>>
                         THEN urljoin(create_base_link(strip_html(licens)), h)
                         ELSE h
              /\ scrapes' # scrapes => scrapes' = Count(scrapes, href')
              /\ scraped_links' # scraped_links =>
                    DOMAIN scraped_links' = DOMAIN scraped_links \cup {href'}
    ]_vars

C6_Witness ==
    /\ fi = 2
    /\ Str(licens) = "by-sa_4.0_fr.html"
    /\ link = Anchor(<<"deed">>)
    /\ nchecked = 1
    /\ Str(href) = "https://creativecommons.org/licenses/by-sa/4.0/deed"
    /\ \E k \in DOMAIN scraped_links :
          Str(k) = "https://creativecommons.org/licenses/by/4.0/deed"

\* C7: the error lines printed for a file are as many as its checked
\* anchors with a failing check result, from the cache or not; none is
\* printed, and no header, for a file without one.
C7_ReportLines ==
    /\ printed = nfailing
    /\ nfailing = 0 => headers = 0

C7_Witness ==
    /\ AtFiles
    /\ fi = 1
    /\ nlinks = 2
    /\ nchecked = 2
    /\ link = Anchor(Mailto)
    /\ status = Text("ignore")
    /\ Cardinality(DOMAIN scraped_links) = 2
    /\ \E k \in DOMAIN scraped_links : scraped_links[k] = Code(404)
    /\ printed = 1
    /\ err_code = 1

\* The link reached check_existing: its key was made and either scraped or
\* answered from the cache.
CheckedThrough ==
    /\ href' = create_absolute_link(urlsplit(link'.href), link'.href, base_url)
    /\ \/ scrapes' # scrapes
       \/ nchecked' = nchecked + 1 /\ status' = scraped_links[href']

\* C8: every anchor is skipped for having no href, skipped for an href that
\* starts with "#", or, for every other href, resolved and checked by
\* check_existing; then the loop goes on to the next anchor (a transport
\* error that get_status does not catch may end the run instead).
C8_ThreeOutcomes ==
    [][LinkStep =>
          /\ li' = li + 1 \/ exc' = "RequestException"
          /\ \/ ~link'.has_href /\ UNCHANGED <<scraped_links, scrapes, nchecked>>
             \/ Internal(link') /\ UNCHANGED <<scraped_links, scrapes, nchecked>>
             \/ Checkable(link') /\ CheckedThrough
    ]_vars

\* C9: after a failing check result the run goes on with the remaining
\* anchors and files up to sys.exit (a transport error that get_status does
\* not catch may end the run instead), and a key with the result
\* "Timeout Error" is not scraped again.
C9_FailuresRecovered ==
    [][/\ (pc = "run" /\ any_error) =>
             (pc' \in {"run", "exited"} \/ exc' = "RequestException")
       /\ \A k \in DOMAIN scraped_links :
             scraped_links[k] = Text("Timeout Error") => scrapes'[k] = scrapes[k]
    ]_vars

\* C10: an entry of scraped_links is never changed or removed, whatever its
\* value, and a check of a key that has an entry returns the value of the
\* entry and does not scrape.
C10_AppendOnly ==
    [][/\ \A k \in DOMAIN scraped_links :
             k \in DOMAIN scraped_links' /\ scraped_links'[k] = scraped_links[k]
       /\ (LinkStep /\ Checkable(link') /\ link'.href # <<>>
             /\ href' \in DOMAIN scraped_links) =>
             /\ status' = scraped_links[href']
             /\ scrapes' = scrapes
             /\ gets' = gets
    ]_vars

C10_Witness ==
    /\ nchecked = 2
    /\ status = Text("Timeout Error")
    /\ Cardinality(DOMAIN scraped_links) = 1
    /\ href \in DOMAIN scrapes
    /\ scrapes[href] = 1

====
